---- MODULE Spec2Model ----
(***************************************************************************)
(* A model of the recommendation simulator: the RatedNetwork container,    *)
(* the greedy and the probabilistic RecommendationAlgorithm, and the       *)
(* K-means ProfileLearner.                                                 *)
(*                                                                         *)
(* Arrays are functions on 0..n-1, as in the source.                       *)
(*                                                                         *)
(* Numbers.  The source computes in IEEE doubles.  The model holds every   *)
(* quantity as an integer multiple of a power of two, on which the         *)
(* doubles are exact:                                                      *)
(*   similarity values and the bounds lower/upper   in halves   (x * 2)    *)
(*   the rescaled similarity values                 in quarters (x * 4)    *)
(*   the rescaled ratings                           in halves   (x * 2)    *)
(*   the recommendation scores                      in eighths  (x * 8)    *)
(* A rating is 1..5, or Null for JavaScript's null.                        *)
(***************************************************************************)
EXTENDS Integers, Sequences, FiniteSets, TLC

(***************************************************************************)
(* The state: one RatedNetwork, the last call made on it, the arguments    *)
(* of a call that is explored on its own, and the nodes whose latest       *)
(* addRating gave a rating; the users' stored rating vectors and the       *)
(* learnProfile call in progress; the learner's similarityFunction, and    *)
(* the results of the calls that ended, oldest first.                      *)
(***************************************************************************)
VARIABLES rnet, last, args, called, users, km, sim, ret

vars == <<rnet, last, args, called, users, km, sim, ret>>

\* JavaScript's null in a Rating[] (an unrated node).
Null == -1

\* The rating range: Math.floor(Math.random()*5)+1.
minRating == 1
maxRating == 5

\* ratingRescaleFactorDefault = 2.5 and unratedStarRatingDefault = 2.5, in halves.
ratingRescaleFactor == 5
unratedStarRating == 5

\* The largest network dimension explored.
MaxN == 3

\* The similarity values explored, in halves: 0 and 1.
NetVals == {0, 2}

\* The declared bounds explored, in halves: 0 and 2.
BoundVals == {0, 4}

\* The draws u of Math.random() explored: u = d / UGrid for d in 0..UGrid-1.
UGrid == 4

\* The constructor is explored on every array of at most MaxCtorN rows of at
\* most MaxCtorN values each, ragged ones included, over CtorVals (in
\* halves: -0.5 and 0).
MaxCtorN == 2

CtorVals == {-1, 0}

Rating == minRating..maxRating
RatingOrNull == Rating \cup {Null}

(***************************************************************************)
(* Arrays                                                                  *)
(***************************************************************************)
Length(a) == Cardinality(DOMAIN a)

Indices(a) == 0..(Length(a) - 1)

\* Array(n).fill(v)
Fill(n, v) == [i \in 0..(n - 1) |-> v]

Vectors(n, S) == [0..(n - 1) -> S]

\* floor(x / 2) and ceil(x / 2), as even numbers of halves: Math.floor and
\* Math.ceil of a value held in halves.
MathFloor(h) == 2 * (h \div 2)

MathCeil(h) == 2 * (-((-h) \div 2))

(***************************************************************************)
(* matrix.ts                                                               *)
(***************************************************************************)
\* The comparison handed to twoDimReduce: (e1, e2) => e1 < e2 for the
\* minimum, (e1, e2) => e1 > e2 for the maximum.
Before(lt, e1, e2) == IF lt THEN e1 < e2 ELSE e1 > e2

\* row.reduce((e1, e2) => (f(e1, e2) ? e1 : e2)), from accumulator acc at index i.
RECURSIVE ReduceFrom(_, _, _, _)
ReduceFrom(row, lt, acc, i) ==
    IF i >= Length(row) THEN acc
    ELSE ReduceFrom(row, lt, IF Before(lt, acc, row[i]) THEN acc ELSE row[i], i + 1)

\* Array.prototype.reduce without an initial value, on a non-empty array.
Reduce(row, lt) == ReduceFrom(row, lt, row[0], 1)

twoDimReduce(matrix, lt) ==
    Reduce([r \in Indices(matrix) |-> Reduce(matrix[r], lt)], lt)

RECURSIVE DotFrom(_, _, _, _)
DotFrom(row, vector, sum, i) ==
    IF i >= Length(row) THEN sum
    ELSE DotFrom(row, vector, sum + row[i] * vector[i], i + 1)

\* A variant of matVecMul whose sums leave out the first column.
matVecMulSkipFirst(matrix, vector) ==
    [r \in Indices(matrix) |-> DotFrom(matrix[r], vector, 0, 1)]

\* matVecMul: one sum per row of the matrix.
matVecMul(matrix, vector) ==
    [r \in Indices(matrix) |-> DotFrom(matrix[r], vector, 0, 0)]

(***************************************************************************)
(* rated-network.ts                                                        *)
(***************************************************************************)
\* The value of a RatedNetwork variable that holds no object.
NoRnet == [nNodes |-> -1, network |-> <<>>, ratings |-> <<>>, lower |-> 0, upper |-> 0]

\* An omitted (null) bound argument is <<>>, a given one <<b>>.
Omitted == <<>>

\* A variant of the constructor without the assert on lower < upper.
NewSkipBoundAssert(network, ratings, lowerArg, upperArg) ==
    LET nRows == Length(network)
        nCols == [r \in Indices(network) |-> Length(network[r])]
        sameColLengths == \A r \in Indices(nCols) : nCols[r] = nCols[0]
    IN  IF ~sameColLengths THEN [ok |-> FALSE, err |-> "AssertionError", obj |-> NoRnet]
        ELSE IF nRows = 0 \/ nCols[0] # nRows
            THEN [ok |-> FALSE, err |-> "AssertionError", obj |-> NoRnet]
        ELSE IF Length(ratings) # nRows
            THEN [ok |-> FALSE, err |-> "AssertionError", obj |-> NoRnet]
        ELSE LET lower == IF lowerArg = Omitted
                            THEN MathFloor(twoDimReduce(network, TRUE)) ELSE lowerArg[1]
                 upper == IF upperArg = Omitted
                            THEN MathCeil(twoDimReduce(network, FALSE)) ELSE upperArg[1]
             IN  [ok |-> TRUE, err |-> "none",
                  obj |-> [nNodes |-> nRows, network |-> network, ratings |-> ratings,
                           lower |-> lower, upper |-> upper]]

\* A variant of the constructor whose derived lower is not rounded down.
NewNoFloor(network, ratings, lowerArg, upperArg) ==
    LET nRows == Length(network)
        nCols == [r \in Indices(network) |-> Length(network[r])]
        sameColLengths == \A r \in Indices(nCols) : nCols[r] = nCols[0]
    IN  IF ~sameColLengths THEN [ok |-> FALSE, err |-> "AssertionError", obj |-> NoRnet]
        ELSE IF nRows = 0 \/ nCols[0] # nRows
            THEN [ok |-> FALSE, err |-> "AssertionError", obj |-> NoRnet]
        ELSE IF Length(ratings) # nRows
            THEN [ok |-> FALSE, err |-> "AssertionError", obj |-> NoRnet]
        ELSE LET lower == IF lowerArg = Omitted
                            THEN twoDimReduce(network, TRUE) ELSE lowerArg[1]
                 upper == IF upperArg = Omitted
                            THEN MathCeil(twoDimReduce(network, FALSE)) ELSE upperArg[1]
             IN  IF ~(lower < upper)
                    THEN [ok |-> FALSE, err |-> "AssertionError", obj |-> NoRnet]
                    ELSE [ok |-> TRUE, err |-> "none",
                          obj |-> [nNodes |-> nRows, network |-> network,
                                   ratings |-> ratings, lower |-> lower, upper |-> upper]]

\* new RatedNetwork(network, ratings, lower, upper): the object, or the
\* AssertionError of the first assert that fails.
New(network, ratings, lowerArg, upperArg) ==
    LET nRows == Length(network)
        nCols == [r \in Indices(network) |-> Length(network[r])]
        sameColLengths == \A r \in Indices(nCols) : nCols[r] = nCols[0]
    IN  IF ~sameColLengths THEN [ok |-> FALSE, err |-> "AssertionError", obj |-> NoRnet]
        \* nCols[0] is undefined for an empty network, and undefined !== 0
        ELSE IF nRows = 0 \/ nCols[0] # nRows
            THEN [ok |-> FALSE, err |-> "AssertionError", obj |-> NoRnet]
        ELSE IF Length(ratings) # nRows
            THEN [ok |-> FALSE, err |-> "AssertionError", obj |-> NoRnet]
        ELSE LET lower == IF lowerArg = Omitted
                            THEN MathFloor(twoDimReduce(network, TRUE)) ELSE lowerArg[1]
                 upper == IF upperArg = Omitted
                            THEN MathCeil(twoDimReduce(network, FALSE)) ELSE upperArg[1]
             IN  IF ~(lower < upper)
                    THEN [ok |-> FALSE, err |-> "AssertionError", obj |-> NoRnet]
                    ELSE [ok |-> TRUE, err |-> "none",
                          obj |-> [nNodes |-> nRows, network |-> network,
                                   ratings |-> ratings, lower |-> lower, upper |-> upper]]

\* hasRating(): !ratings.every((r) => r === null)
hasRating(rn) == ~(\A i \in Indices(rn.ratings) : rn.ratings[i] = Null)

\* hasUnrated(): !ratings.every((r) => r !== null)
hasUnrated(rn) == ~(\A i \in Indices(rn.ratings) : rn.ratings[i] # Null)

\* A variant of addRating that appends the rating.
addRatingAppend(rn, nodeIndex, rating) ==
    IF ~(nodeIndex >= 0 /\ nodeIndex < rn.nNodes)
        THEN [err |-> "AssertionError", obj |-> rn]
        ELSE [err |-> "none",
              obj |-> [rn EXCEPT !.ratings =
                          [i \in 0..Length(rn.ratings) |->
                              IF i < Length(rn.ratings) THEN rn.ratings[i] ELSE rating]]]

\* A variant of addRating without the assert on nodeIndex.
addRatingNoAssert(rn, nodeIndex, rating) ==
    [err |-> "none",
     obj |-> [rn EXCEPT !.ratings =
                 [i \in Indices(rn.ratings) \cup {nodeIndex} |->
                     IF i = nodeIndex THEN rating ELSE rn.ratings[i]]]]

\* addRating(nodeIndex, rating): the object after the call, and the error.
addRating(rn, nodeIndex, rating) ==
    IF ~(nodeIndex >= 0 /\ nodeIndex < rn.nNodes)
        THEN [err |-> "AssertionError", obj |-> rn]
        ELSE [err |-> "none", obj |-> [rn EXCEPT !.ratings[nodeIndex] = rating]]

(***************************************************************************)
(* recommendation-algorithm.ts                                             *)
(***************************************************************************)
\* getRecommendationVector: the scores, in eighths.  It works on a
\* cloneDeep of its argument and on the arrays map() returns.
getRecommendationVector(rn) ==
    LET networkRescaleFactor == rn.upper - rn.lower          \* quarters
        rescaledNetwork ==
            [r \in Indices(rn.network) |->
                [c \in Indices(rn.network[r]) |->
                    2 * rn.network[r][c] - networkRescaleFactor]]
        starRatings ==
            [i \in Indices(rn.ratings) |->
                IF rn.ratings[i] = Null THEN unratedStarRating ELSE 2 * rn.ratings[i]]
        rescaledRatings ==
            [i \in Indices(starRatings) |-> starRatings[i] - ratingRescaleFactor]
    IN  matVecMul(rescaledNetwork, rescaledRatings)

\* The rescaled network of getRecommendationVector, in quarters:
\* row.map((elem) => elem - networkRescaleFactor), (upper - lower) / 2.
rescaledNetworkOf(rn) ==
    LET networkRescaleFactor == rn.upper - rn.lower          \* quarters
    IN  [r \in Indices(rn.network) |->
            [c \in Indices(rn.network[r]) |->
                2 * rn.network[r][c] - networkRescaleFactor]]

\* Array.from(v.entries()).reduce(([i1, e1], [i2, e2]) => (e1 > e2) ? [i1, e1] : [i2, e2]),
\* from the accumulator pair acc at index i.
RECURSIVE MaxEntryFrom(_, _, _)
MaxEntryFrom(v, acc, i) ==
    IF i >= Length(v) THEN acc
    ELSE MaxEntryFrom(v, IF acc[2] > v[i] THEN acc ELSE <<i, v[i]>>, i + 1)

\* A variant of the reduce that ends on the first index that holds the maximum.
MaxEntryFirst(v) ==
    LET best == ReduceFrom(v, FALSE, v[0], 1)
    IN  <<CHOOSE j \in Indices(v) : v[j] = best /\ \A h \in 0..(j - 1) : v[h] # best, best>>

MaxEntry(v) == MaxEntryFrom(v, <<0, v[0]>>, 1)

\* A variant of the scores that leaves the rated nodes as they are.
GreedyKeepRated(rn) == getRecommendationVector(rn)

\* A variant of the scores that gives the rated nodes the minimum itself.
GreedyScoresAtMinimum(rn) ==
    LET recommendVector == getRecommendationVector(rn)
        minVal == Reduce(recommendVector, TRUE)
    IN  [i \in Indices(recommendVector) |->
            IF rn.ratings[i] # Null THEN minVal ELSE recommendVector[i]]

\* The scores after the rated nodes are "removed": minVal - 1, in eighths.
GreedyScores(rn) ==
    LET recommendVector == getRecommendationVector(rn)
        minVal == Reduce(recommendVector, TRUE)
    IN  [i \in Indices(recommendVector) |->
            IF rn.ratings[i] # Null THEN minVal - 8 ELSE recommendVector[i]]

\* A variant of recommend that writes the implicit star rating of the
\* unrated nodes into the RatedNetwork it is given.
GreedyMarksRated(rn) ==
    [index |-> MaxEntry(GreedyScores(rn))[1],
     rnet |-> [rn EXCEPT !.ratings =
                 [i \in Indices(rn.ratings) |->
                     IF rn.ratings[i] = Null THEN unratedStarRating ELSE rn.ratings[i]]]]

\* GreedyRecommendationAlgorithm.recommend: the index returned and the
\* RatedNetwork after the call.
GreedyRecommend(rn) ==
    [index |-> MaxEntry(GreedyScores(rn))[1], rnet |-> rn]

\* distribution.sort(([i1, r1], [i2, r2]) => r1 - r2) on keys that are totally
\* ordered: the indices by ascending key, equal keys in index order (the
\* sort is stable).
SortByKey(key) ==
    LET rank(i) == Cardinality({j \in Indices(key) :
                        key[j] < key[i] \/ (key[j] = key[i] /\ j < i)})
    IN  [r \in Indices(key) |-> CHOOSE i \in Indices(key) : rank(i) = r]

RECURSIVE SumFrom(_, _, _)
SumFrom(v, sum, i) == IF i >= Length(v) THEN sum ELSE SumFrom(v, sum + v[i], i + 1)

\* A variant of the scores that leaves the rated nodes their scores.
ZeroedScoresKeepRated(rn) == getRecommendationVector(rn)

\* The scores with the rated nodes set to 0, in eighths.
ZeroedScores(rn) ==
    LET recommendVector == getRecommendationVector(rn)
    IN  [i \in Indices(recommendVector) |->
            IF rn.ratings[i] # Null THEN 0 ELSE recommendVector[i]]

\* The first entry of cdist that u = d / UGrid is below, where the entries
\* are the partial sums of weight (in sorted order) over total, total > 0;
\* Null when there is none.
RECURSIVE SampleFrom(_, _, _, _, _, _)
SampleFrom(order, weight, total, d, prev, j) ==
    IF j >= Length(order) THEN Null
    ELSE LET cp == prev + weight[order[j]]
         IN  IF d * total < cp * UGrid THEN order[j]
             ELSE SampleFrom(order, weight, total, d, cp, j + 1)

\* A variant of the probabilistic recommend that returns the greedy choice.
ProbOutcomesGreedy(rn, d) ==
    {[index |-> GreedyRecommend(rn).index, err |-> "none", rnet |-> rn]}

\* ProbabilisticRecommendationAlgorithm.recommend with Math.random() = d / UGrid:
\* the outcomes the call can have, each the index returned (or Null), the
\* error thrown and the RatedNetwork after the call.
\*   - all scores identical: the uniform distribution 1/N over all N nodes;
\*   - otherwise, sum # 0: the probabilities e/sum, whose order is that of
\*     e when sum > 0 and that of -e when sum < 0;
\*   - otherwise (sum = 0): e/sum is Infinity, -Infinity or NaN, r1 - r2 is
\*     NaN for most pairs and the order the sort leaves is the engine's; the
\*     loop returns the first node only if it is one with e/sum = Infinity,
\*     and every other cumulative value is -Infinity or NaN, which u is
\*     never below.
ProbOutcomes(rn, d) ==
    LET rv == ZeroedScores(rn)
        n == Length(rv)
        sum == SumFrom(rv, 0, 0)
        pick(i) == IF i = Null THEN [index |-> Null, err |-> "Error", rnet |-> rn]
                   ELSE [index |-> i, err |-> "none", rnet |-> rn]
    IN  IF \A i \in Indices(rv) : rv[i] = rv[0]
            THEN {pick(SampleFrom([i \in Indices(rv) |-> i], Fill(n, 1), n, d, 0, 0))}
        ELSE IF sum > 0
            THEN {pick(SampleFrom(SortByKey(rv), rv, sum, d, 0, 0))}
        ELSE IF sum < 0
            THEN LET neg == [i \in Indices(rv) |-> -rv[i]]
                 IN  {pick(SampleFrom(SortByKey(neg), neg, -sum, d, 0, 0))}
        ELSE {pick(Null)} \cup {pick(i) : i \in {j \in Indices(rv) : rv[j] > 0}}

\* The 0.1 that the recommend of lines 172-208 returns where the recommend
\* of lines 73-101 throws.
Placeholder == -3

\* ProbabilisticRecommendationAlgorithm.recommend as in lines 172-208: the
\* same distribution and sampling loop, ending in "return 0.1".
ProbOutcomesPlaceholder(rn, d) ==
    {IF o.err = "Error" THEN [index |-> Placeholder, err |-> "none", rnet |-> o.rnet] ELSE o :
        o \in ProbOutcomes(rn, d)}

(***************************************************************************)
(* profile-learner.ts                                                      *)
(*                                                                         *)
(* A cluster mean is held exactly, as an integer multiple of 1/MeanDen;    *)
(* MeanDen is a multiple of every cluster size.  An entry of a mean is     *)
(* Null where the mean is a user's own rating vector with a null in it,    *)
(* and Undefined in the array twoDimArray(k, nNodes) builds.               *)
(***************************************************************************)
\* The most users a learning call is explored with.
MaxUsers == 3

\* The numbers of nodes and the stored ratings the users are explored with.
UserDims == {1, 2}

UserVals == {Null, 1, 3}

\* The rating vectors a user is explored with.
UserVectors == UNION {Vectors(n, UserVals) : n \in UserDims}

\* The k of the default parameters = {k: 3}.
DefaultK == 3

\* undefined, the default fill of twoDimArray.
Undefined == -2

RECURSIVE Factorial(_)
Factorial(n) == IF n <= 1 THEN 1 ELSE n * Factorial(n - 1)

MeanDen == Factorial(MaxUsers)

\* null in arithmetic is 0.
Num(x) == IF x = Null THEN 0 ELSE x

\* A rating vector as a mean: startIdx.map((i) => ratings[i]).
AsMean(row) == [i \in Indices(row) |-> IF row[i] = Null THEN Null ELSE MeanDen * row[i]]

\* cleanRatings: _ratings.map((r) => (r === null) ? 0 : r) tests each user's
\* rating vector r, an array, which is never null: every vector is returned
\* as it is stored, nulls included.
cleanRatings(stored) == [u \in Indices(stored) |-> stored[u]]

\* vectorDist(rating vector, mean) squared, in units of 1/MeanDen^2; the
\* square root keeps the order of the distances.
RECURSIVE DistSqFrom(_, _, _, _)
DistSqFrom(v1, mean, distSq, i) ==
    IF i >= Length(v1) THEN distSq
    ELSE LET diff == MeanDen * Num(v1[i]) - Num(mean[i])
         IN  DistSqFrom(v1, mean, distSq + diff * diff, i + 1)

vectorDist(v1, mean) == DistSqFrom(v1, mean, 0, 0)

\* NaN, the value of (v1[i] - undefined)**2 and of its square root.
NaN == -4

\* vectorDist(v1, v2) as a call: the error and the value returned, squared,
\* in units of 1/MeanDen^2.  console.assert throws nothing; the loop runs
\* over the indices of v1, and v2[i] is undefined past the end of v2.
vectorDistCall(v1, v2) ==
    [err |-> "none",
     value |-> IF Length(v1) > Length(v2) THEN NaN ELSE vectorDist(v1, AsMean(v2))]

\* indexedDistances.reduce(([i1, d1], [i2, d2]) => (d1 < d2) ? [i1, d1] : [i2, d2]),
\* from the accumulator pair acc at index i.
RECURSIVE MinEntryFrom(_, _, _)
MinEntryFrom(d, acc, i) ==
    IF i >= Length(d) THEN acc
    ELSE MinEntryFrom(d, IF acc[2] < d[i] THEN acc ELSE <<i, d[i]>>, i + 1)

\* A variant of the reduce that ends on the first index that holds the minimum.
MinEntryFirst(d) ==
    LET best == ReduceFrom(d, TRUE, d[0], 1)
    IN  <<CHOOSE j \in Indices(d) : d[j] = best /\ \A h \in 0..(j - 1) : d[h] # best, best>>

MinEntry(d) == MinEntryFrom(d, <<0, d[0]>>, 1)

\* The Assign step of kMeansIteration: the cluster index of every user.
Assign(ratings, currentMeans) ==
    [u \in Indices(ratings) |->
        MinEntry([c \in Indices(currentMeans) |-> vectorDist(ratings[u], currentMeans[c])])[1]]

\* vectorMean(vectors) of a non-empty array of vectors, in units of
\* 1/MeanDen: the sum of v / vectors.length over the vectors.
RECURSIVE MeanFrom(_, _, _, _)
MeanFrom(vectors, i, sum, n) ==
    IF n >= Length(vectors) THEN sum
    ELSE MeanFrom(vectors, i,
                  sum + (MeanDen * Num(vectors[n][i])) \div Length(vectors), n + 1)

\* A variant of vectorMean that returns the first vector.
vectorMeanFirst(vectors) == AsMean(vectors[0])

\* vectorMean: entry i is the sum over the vectors.
vectorMean(vectors) == [i \in Indices(vectors[0]) |-> MeanFrom(vectors, i, 0, 0)]

\* pointAssignments.filter((p) => p.index == c).map((p) => p.value): the
\* rating vectors assigned to cluster c, in user order.
Cluster(ratings, assign, c) ==
    LET members == {u \in Indices(ratings) : assign[u] = c}
        nth(j) == CHOOSE u \in members : Cardinality({w \in members : w < u}) = j
    IN  [j \in 0..(Cardinality(members) - 1) |-> ratings[nth(j)]]

\* A variant of kMeansIteration whose new means move with the index that
\* initKMeans drew first.
kMeansIterationByDraw(ratings, currentMeans) ==
    LET assign == Assign(ratings, currentMeans)
    IN  IF \E c \in Indices(currentMeans) : Length(Cluster(ratings, assign, c)) = 0
            THEN [err |-> "TypeError", assign |-> assign, means |-> currentMeans]
            ELSE [err |-> "none", assign |-> assign,
                  means |-> [c \in Indices(currentMeans) |->
                                [i \in Indices(currentMeans[c]) |->
                                    vectorMean(Cluster(ratings, assign, c))[i]
                                        + MeanDen * km.startIdx[0]]]]

\* kMeansIteration: the assignment, and the new means or the TypeError of
\* vectorMean on an empty cluster (vectors[0].length of an empty array).
kMeansIteration(ratings, currentMeans) ==
    LET assign == Assign(ratings, currentMeans)
    IN  IF \E c \in Indices(currentMeans) : Length(Cluster(ratings, assign, c)) = 0
            THEN [err |-> "TypeError", assign |-> assign, means |-> currentMeans]
            ELSE [err |-> "none", assign |-> assign,
                  means |-> [c \in Indices(currentMeans) |->
                                vectorMean(Cluster(ratings, assign, c))]]

\* A variant of isEqual that compares the first rows only.
isEqualFirstRow(m1, m2) ==
    \A j \in Indices(m1[0]) : m1[0][j] = m2[0][j]

\* isEqual(m1, m2): m1[i][j] !== m2[i][j] over the entries of m1; the
\* console.assert calls before it throw nothing.
isEqual(m1, m2) ==
    \A i \in Indices(m1) : \A j \in Indices(m1[i]) : m1[i][j] = m2[i][j]

\* A similarity function, the value of this.similarityFunction: the default
\* exp(-0.1 * (r1 - r2)^2), or one setSimilarityFunction installed.  The
\* functions handed to setSimilarityFunction are
\*     (r1, r2, p) => p.a + p.b * Math.abs(r1 - r2)
\* with the parameters p.a in SimA and p.b in SimB, in sixteenths.
DefaultSim == [kind |-> "exp", a |-> 0, b |-> 0]

SimA == {0, 8, 16, 17}

SimB == {-5, -4, -2, 0, 2}

SimFunctions == {[kind |-> "lin", a |-> a, b |-> b] : a \in SimA, b \in SimB}

\* The similarity 1, in sixteenths.
SimOne == 16

Abs(x) == IF x < 0 THEN -x ELSE x

\* f(i, j, parameters) on ratings i and j, in sixteenths.
SimOnRatings(f, i, j) == f.a + f.b * Abs(i - j)

\* A similarity value: the 0 the matrix is filled with; exp(-0.1 * (r1 - r2)^2),
\* held as (r1 - r2)^2 in units of 1/MeanDen^2; or a + b * |r1 - r2|, held in
\* units of 1/(16 * MeanDen).
Zero == [kind |-> "zero", arg |-> 0]

\* this.similarityFunction(r1, r2) on two entries of a mean vector.
simFunc(r1, r2) ==
    IF sim.kind = "exp"
        THEN [kind |-> "exp", arg |-> (Num(r1) - Num(r2)) * (Num(r1) - Num(r2))]
        ELSE [kind |-> "lin", arg |-> sim.a * MeanDen + sim.b * Abs(Num(r1) - Num(r2))]

\* meanVectorsToSimilarityMatrix: simFunc of every pair i < j, at [i][j]
\* and at [j][i].
meanVectorsToSimilarityMatrix(meanVector) ==
    [i \in Indices(meanVector) |-> [j \in Indices(meanVector) |->
        IF i = j THEN Zero
        ELSE IF i < j THEN simFunc(meanVector[i], meanVector[j])
        ELSE simFunc(meanVector[j], meanVector[i])]]

\* A variant of setSimilarityFunction that installs f before it tests it.
setSimilarityFunctionEager(current, f) ==
    IF \E i \in minRating..maxRating : \E j \in minRating..maxRating :
            ~(0 <= SimOnRatings(f, i, j) /\ SimOnRatings(f, i, j) <= SimOne)
        THEN [err |-> "AssertionError", sim |-> f]
        ELSE [err |-> "none", sim |-> f]

\* setSimilarityFunction(f, parameters) on a learner whose function is
\* current: the error, and the learner's function after the call.  The
\* assert throws at the first pair whose similarity is outside [0, 1], before
\* the assignment.
setSimilarityFunction(current, f) ==
    IF \E i \in minRating..maxRating : \E j \in minRating..maxRating :
            ~(0 <= SimOnRatings(f, i, j) /\ SimOnRatings(f, i, j) <= SimOne)
        THEN [err |-> "AssertionError", sim |-> current]
        ELSE [err |-> "none", sim |-> f]

\* AverageLearner.learnProfile(us): the error and the profiles returned.
\* users[0] is a TypeError when there is no user; the assert throws on users
\* of different dimensions.
averageLearnProfile(us) ==
    IF Length(us) = 0 THEN [err |-> "TypeError", profiles |-> <<>>]
    ELSE IF ~(\A u \in Indices(us) : Length(us[u]) = Length(us[0]))
        THEN [err |-> "AssertionError", profiles |-> <<>>]
    ELSE [err |-> "none",
          profiles |-> Fill(1, meanVectorsToSimilarityMatrix(vectorMean(cleanRatings(us))))]

(***************************************************************************)
(* Calls and their arguments                                               *)
(***************************************************************************)
\* No learnProfile call.
NoLearning ==
    [pc |-> "idle", given |-> "none", k |-> 0, ratings |-> <<>>, startIdx |-> <<>>,
     currentMeans |-> <<>>, previousMeans |-> <<>>, assign |-> <<>>, rounds |-> 0,
     history |-> <<>>, profiles |-> <<>>, err |-> "none"]

\* last.index and last.rating are addRating's arguments, last.result the
\* index a recommend returned, last.err the error a call ended in; a field
\* the call does not have holds Null.
Call(op, index, rating, result, err) ==
    [op |-> op, index |-> index, rating |-> rating, result |-> result, err |-> err]

NoArgs == [network |-> <<>>, nRatings |-> 0, lower |-> Omitted, upper |-> Omitted]

BoundArgs == {Omitted} \cup {<<b>> : b \in BoundVals}

\* The networks NetworkGenerator.randomNetwork and meanVectorsToSimilarityMatrix
\* build: symmetric, with a zero diagonal.
Pairs(n) == {p \in (0..(n - 1)) \X (0..(n - 1)) : p[1] < p[2]}

SymNets(n) ==
    {[i \in 0..(n - 1) |-> [j \in 0..(n - 1) |->
        IF i = j THEN 0 ELSE IF i < j THEN e[<<i, j>>] ELSE e[<<j, i>>]]] :
     e \in [Pairs(n) -> NetVals]}

\* A session starts from a RatedNetwork that was constructed.
Init ==
    \E n \in 1..MaxN :
      \E network \in SymNets(n), ratings \in Vectors(n, RatingOrNull),
         lowerArg \in BoundArgs, upperArg \in BoundArgs :
        LET made == New(network, ratings, lowerArg, upperArg)
        IN  /\ made.ok
            /\ rnet = made.obj
            /\ last = Call("new", Null, Null, Null, "none")
            /\ args = NoArgs
            /\ called = {}
            /\ users = <<>>
            /\ km = NoLearning
            /\ sim = DefaultSim
            /\ ret = <<>>

\* ratedNetwork.addRating(nodeIndex, rating), with an index in or out of range.
AddRatingCall(nodeIndex, rating) ==
    LET res == addRating(rnet, nodeIndex, rating)
    IN  /\ rnet' = res.obj
        /\ last' = Call("addRating", nodeIndex, rating, Null, res.err)
        /\ UNCHANGED <<args, users, km, sim, ret>>

AddRating ==
    \E nodeIndex \in -1..rnet.nNodes, rating \in RatingOrNull :
        AddRatingCall(nodeIndex, rating) /\ UNCHANGED called

\* greedyAlgorithm.recommend(ratedNetwork)
Greedy ==
    LET res == GreedyRecommend(rnet)
    IN  /\ rnet' = res.rnet
        /\ last' = Call("greedy", Null, Null, res.index, "none")
        /\ UNCHANGED <<args, called, users, km, sim, ret>>

\* probabilisticAlgorithm.recommend(ratedNetwork)
Probabilistic ==
    \E d \in 0..(UGrid - 1) :
      \E res \in ProbOutcomes(rnet, d) :
        /\ rnet' = res.rnet
        /\ last' = Call("probabilistic", Null, Null, res.index, res.err)
        /\ UNCHANGED <<args, called, users, km, sim, ret>>

Next == AddRating \/ Greedy \/ Probabilistic

Spec == Init /\ [][Next]_vars

(***************************************************************************)
(* The constructor on its own: every argument list within the bounds.      *)
(***************************************************************************)
Arrays(n, S) == UNION {Vectors(m, S) : m \in 0..n}

InitNew ==
    /\ rnet = NoRnet
    /\ last = Call("none", Null, Null, Null, "none")
    /\ called = {}
    /\ users = <<>>
    /\ km = NoLearning
    /\ sim = DefaultSim
    /\ ret = <<>>
    /\ \E network \in Arrays(MaxCtorN, Arrays(MaxCtorN, CtorVals)),
          nRatings \in 0..MaxCtorN, lowerArg \in BoundArgs, upperArg \in BoundArgs :
         args = [network |-> network, nRatings |-> nRatings,
                 lower |-> lowerArg, upper |-> upperArg]

\* new RatedNetwork(args.network, ratings, args.lower, args.upper)
Construct ==
    /\ last.op = "none"
    /\ \E ratings \in Vectors(args.nRatings, {Null, maxRating}) :
         LET made == New(args.network, ratings, args.lower, args.upper)
         IN  /\ rnet' = made.obj
             /\ last' = Call("new", Null, Null, Null, made.err)
    /\ UNCHANGED <<args, called, users, km, sim, ret>>

NextNew == Construct

SpecNew == InitNew /\ [][NextNew]_vars

(***************************************************************************)
(* The round trip: a RatedNetwork of a User without a profile (an all-zero *)
(* network, bounds 0 and 2) and addRating calls.                           *)
(***************************************************************************)
InitRoundTrip ==
    \E n \in 1..MaxN :
      \E ratings \in Vectors(n, RatingOrNull) :
        LET made == New(Fill(n, Fill(n, 0)), ratings, <<0>>, <<4>>)
        IN  /\ made.ok
            /\ rnet = made.obj
            /\ last = Call("new", Null, Null, Null, "none")
            /\ args = NoArgs
            /\ called = {}
            /\ users = <<>>
            /\ km = NoLearning
            /\ sim = DefaultSim
            /\ ret = <<>>

Rate ==
    \E nodeIndex \in -1..rnet.nNodes, rating \in RatingOrNull :
        /\ AddRatingCall(nodeIndex, rating)
        /\ called' = IF last'.err # "none" THEN called
                     ELSE IF rating \in Rating THEN called \cup {nodeIndex}
                     ELSE called \ {nodeIndex}

NextRoundTrip == Rate

SpecRoundTrip == InitRoundTrip /\ [][NextRoundTrip]_vars

(***************************************************************************)
(* KMeansLearner.learnProfile(users, {k: k}) on users of one dimension.    *)
(***************************************************************************)
Append0(a, x) == [i \in 0..Length(a) |-> IF i < Length(a) THEN a[i] ELSE x]

Range(a) == {a[i] : i \in DOMAIN a}

InitKM ==
    /\ rnet = NoRnet
    /\ last = Call("none", Null, Null, Null, "none")
    /\ args = NoArgs
    /\ called = {}
    /\ km = NoLearning
    /\ sim = DefaultSim
    /\ ret = <<>>
    /\ \E nUsers \in 0..MaxUsers : users \in Vectors(nUsers, UserVectors)

\* learnProfile(users, parameters) with parameters = {k: k}, up to the start
\* of initKMeans' loop: the test of 'k' in parameters, users[0] (a TypeError
\* when there is no user), the three asserts, then cleanRatings.
learnProfileStart(k) ==
    IF Length(users) = 0 THEN [km EXCEPT !.pc = "threw", !.k = k, !.err = "TypeError"]
    ELSE IF ~(k >= 1) \/ ~(Length(users) >= k)
            \/ ~(\A u \in Indices(users) : Length(users[u]) = Length(users[0]))
        THEN [km EXCEPT !.pc = "threw", !.k = k, !.err = "AssertionError"]
    ELSE [km EXCEPT !.pc = "init", !.k = k, !.ratings = cleanRatings(users)]

\* The call with a parameters argument that has a k, with one that has
\* none ({}), and without the argument, which defaults to {k: 3}.
LearnProfile ==
    /\ km.pc = "idle"
    /\ \/ \E k \in 0..(Length(users) + 1) :
            km' = [learnProfileStart(k) EXCEPT !.given = "k"]
       \/ km' = [km EXCEPT !.pc = "threw", !.given = "noK", !.err = "Error"]
       \/ km' = [learnProfileStart(DefaultK) EXCEPT !.given = "omitted"]
    /\ UNCHANGED <<rnet, last, args, called, users, sim, ret>>

\* A variant of initKMeans that takes every candidate, drawn before or not.
DrawRepeating ==
    /\ km.pc = "init"
    /\ \E candidateIdx \in Indices(km.ratings) :
         LET startIdx == Append0(km.startIdx, candidateIdx)
         IN  IF Length(startIdx) < km.k
               THEN km' = [km EXCEPT !.startIdx = startIdx]
               ELSE km' = [km EXCEPT
                       !.pc = "run",
                       !.startIdx = startIdx,
                       !.currentMeans =
                           [c \in Indices(startIdx) |-> AsMean(km.ratings[startIdx[c]])],
                       !.history =
                           Fill(1, [c \in Indices(startIdx) |->
                                       AsMean(km.ratings[startIdx[c]])]),
                       !.previousMeans =
                           Fill(km.k, Fill(Length(km.ratings[0]), Undefined))]
    /\ UNCHANGED <<rnet, last, args, called, users, sim, ret>>

\* initKMeans: one getRndIdx() draw.  A candidate that startIdx includes is
\* drawn again; the k-th index ends the loop, and runKMeans starts from the
\* rating vectors at startIdx and a previousMeans of undefined entries.
Draw ==
    /\ km.pc = "init"
    /\ \E candidateIdx \in Indices(km.ratings) :
         IF candidateIdx \in Range(km.startIdx) THEN UNCHANGED km
         ELSE LET startIdx == Append0(km.startIdx, candidateIdx)
              IN  IF Length(startIdx) < km.k
                    THEN km' = [km EXCEPT !.startIdx = startIdx]
                    ELSE km' = [km EXCEPT
                            !.pc = "run",
                            !.startIdx = startIdx,
                            !.currentMeans =
                                [c \in Indices(startIdx) |-> AsMean(km.ratings[startIdx[c]])],
                            !.history =
                                Fill(1, [c \in Indices(startIdx) |->
                                            AsMean(km.ratings[startIdx[c]])]),
                            !.previousMeans =
                                Fill(km.k, Fill(Length(km.ratings[0]), Undefined))]
    /\ UNCHANGED <<rnet, last, args, called, users, sim, ret>>

\* A variant of the write of isEqual that empties the array.
SetLengthZero(v, n) == [i \in 0..(-1) |-> Undefined]

\* v.length = n: the array v cut to n entries, or grown to n by empty ones.
SetLength(v, n) == [i \in 0..(n - 1) |-> IF i < Length(v) THEN v[i] ELSE Undefined]

\* The stored rating vectors after the loop test of runKMeans.  The second
\* assert of isEqual(currentMeans, previousMeans) evaluates
\* m2.every((v, i) => v.length = m2[i].length), an assignment to the length
\* of every row of previousMeans.  After the first round previousMeans is
\* initMeans, whose rows are the users' own rating arrays: cleanRatings
\* returned them and startIdx.map((i) => ratings[i]) copied none.  In every
\* other round the rows of previousMeans are arrays the call built.
StoredAfterLoopTest ==
    IF km.rounds # 1 THEN users
    ELSE [u \in Indices(users) |->
            IF \E c \in Indices(km.startIdx) : km.startIdx[c] = u
                THEN LET c == CHOOSE e \in Indices(km.startIdx) : km.startIdx[e] = u
                     IN  SetLength(users[u], Length(km.previousMeans[c]))
                ELSE users[u]]

\* runKMeans: one round of the loop, while (!isEqual(currentMeans, previousMeans)).
Iterate ==
    /\ km.pc = "run"
    /\ ~isEqual(km.currentMeans, km.previousMeans)
    /\ LET it == kMeansIteration(km.ratings, km.currentMeans)
       IN  km' = [km EXCEPT
                    !.pc = IF it.err = "none" THEN "run" ELSE "threw",
                    !.err = it.err,
                    !.previousMeans = km.currentMeans,
                    !.currentMeans = it.means,
                    !.assign = it.assign,
                    !.history = IF it.err = "none" THEN Append0(km.history, it.means)
                                ELSE km.history,
                    !.rounds = km.rounds + 1]
    /\ users' = StoredAfterLoopTest
    /\ UNCHANGED <<rnet, last, args, called, sim, ret>>

\* runKMeans returns, and learnProfile maps the final means to profiles.
Return ==
    /\ km.pc = "run"
    /\ isEqual(km.currentMeans, km.previousMeans)
    /\ km' = [km EXCEPT
                !.pc = "done",
                !.profiles = [c \in Indices(km.currentMeans) |->
                                 meanVectorsToSimilarityMatrix(km.currentMeans[c])]]
    /\ users' = StoredAfterLoopTest
    /\ UNCHANGED <<rnet, last, args, called, sim, ret>>

NextKM == LearnProfile \/ Draw \/ Iterate \/ Return

SpecKM == InitKM /\ [][NextKM]_vars

\* getRndIdx() is Math.floor(Math.random() * nUsers): every index has the
\* probability 1/nUsers at every draw, so an index that startIdx does not
\* include yet is drawn in the end.
SpecKMFair == InitKM /\ [][NextKM]_vars /\ WF_vars(Draw)

(***************************************************************************)
(* Two learnProfile calls on the same users with the same k: the second    *)
(* starts when the first has ended, and draws its own start indices.       *)
(***************************************************************************)
\* The number of nodes of the users of the two calls.
TwoRunDim == 1

InitTwoRuns ==
    /\ rnet = NoRnet
    /\ last = Call("none", Null, Null, Null, "none")
    /\ args = NoArgs
    /\ called = {}
    /\ km = NoLearning
    /\ sim = DefaultSim
    /\ ret = <<>>
    /\ \E nUsers \in 1..MaxUsers : users \in Vectors(nUsers, Vectors(TwoRunDim, UserVals))

\* The first call has ended in runKMeans, by returning or by throwing; what
\* its runKMeans was given, passed through and ended in is kept, and the
\* second call, past its asserts, is at the start of initKMeans.
Restart ==
    /\ ret = <<>>
    /\ km.pc \in {"done", "threw"}
    /\ km.rounds >= 1
    /\ ret' = <<[op |-> "runKMeans", startIdx |-> km.startIdx, history |-> km.history,
                 means |-> km.currentMeans, err |-> km.err]>>
    /\ km' = [NoLearning EXCEPT !.pc = "init", !.given = km.given, !.k = km.k,
                                !.ratings = cleanRatings(users)]
    /\ UNCHANGED <<rnet, last, args, called, users, sim>>

NextTwoRuns == LearnProfile \/ Draw \/ Iterate \/ Return \/ Restart

SpecTwoRuns == InitTwoRuns /\ [][NextTwoRuns]_vars

(***************************************************************************)
(* setSimilarityFunction calls on one learner.                             *)
(***************************************************************************)
InitSim ==
    /\ rnet = NoRnet
    /\ last = Call("none", Null, Null, Null, "none")
    /\ args = NoArgs
    /\ called = {}
    /\ users = <<>>
    /\ km = NoLearning
    /\ sim = DefaultSim
    /\ ret = <<>>

\* learner.setSimilarityFunction(f, parameters)
SetSimilarityFunction ==
    \E f \in SimFunctions :
        LET res == setSimilarityFunction(sim, f)
        IN  /\ sim' = res.sim
            /\ args' = [similarityFunction |-> f]
            /\ last' = Call("setSimilarityFunction", Null, Null, Null, res.err)
            /\ UNCHANGED <<rnet, called, users, km, ret>>

NextSim == SetSimilarityFunction

SpecSim == InitSim /\ [][NextSim]_vars

(***************************************************************************)
(* AverageLearner.learnProfile(users), twice, on a learner with the        *)
(* default similarity function or one that setSimilarityFunction installed.*)
(***************************************************************************)
InstalledSims ==
    {DefaultSim} \cup {f \in SimFunctions : setSimilarityFunction(DefaultSim, f).err = "none"}

InitAverage ==
    /\ rnet = NoRnet
    /\ last = Call("none", Null, Null, Null, "none")
    /\ args = NoArgs
    /\ called = {}
    /\ km = NoLearning
    /\ sim \in InstalledSims
    /\ ret = <<>>
    /\ \E nUsers \in 0..MaxUsers : users \in Vectors(nUsers, UserVectors)

\* avgLearner.learnProfile(users)
AverageLearn ==
    /\ Len(ret) < 2
    /\ LET res == averageLearnProfile(users)
       IN  ret' = Append(ret, [op |-> "average", err |-> res.err, profiles |-> res.profiles])
    /\ UNCHANGED <<rnet, last, args, called, users, km, sim>>

NextAverage == AverageLearn

SpecAverage == InitAverage /\ [][NextAverage]_vars

(***************************************************************************)
(* The two learners on the same users: KMeansLearner.learnProfile and      *)
(* AverageLearner.learnProfile calls, as user.ts makes them.               *)
(***************************************************************************)
NextLearners == LearnProfile \/ Draw \/ Iterate \/ Return \/ AverageLearn

SpecLearners == InitTwoRuns /\ [][NextLearners]_vars

(***************************************************************************)
(* The scoring step on the networks NetworkGenerator.randomRatedNetwork    *)
(* builds for edge values of either sign.                                  *)
(***************************************************************************)
\* The edge values, in halves: -1, 0 and 1.
EdgeVals == {-2, 0, 2}

EdgeNets(n) ==
    {[i \in 0..(n - 1) |-> [j \in 0..(n - 1) |->
        IF i = j THEN 0 ELSE IF i < j THEN e[<<i, j>>] ELSE e[<<j, i>>]]] :
     e \in [Pairs(n) -> EdgeVals]}

InitScore ==
    \E n \in 1..MaxN :
      \E network \in EdgeNets(n), ratings \in Vectors(n, {Null, maxRating}),
         lowerArg \in BoundArgs, upperArg \in BoundArgs :
        LET made == New(network, ratings, lowerArg, upperArg)
        IN  /\ made.ok
            /\ rnet = made.obj
            /\ last = Call("new", Null, Null, Null, "none")
            /\ args = NoArgs
            /\ called = {}
            /\ users = <<>>
            /\ km = NoLearning
            /\ sim = DefaultSim
            /\ ret = <<>>

\* getRecommendationVector(rnet)
Score ==
    /\ ret = <<>>
    /\ ret' = <<[op |-> "getRecommendationVector",
                 rescaledNetwork |-> rescaledNetworkOf(rnet),
                 recommendVector |-> getRecommendationVector(rnet)]>>
    /\ UNCHANGED <<rnet, last, args, called, users, km, sim>>

NextScore == Score

SpecScore == InitScore /\ [][NextScore]_vars

\* The probabilistic recommend on the same networks, whose unrated nodes
\* can have scores of both signs that do not cancel.
NextSigned == Probabilistic

SpecSigned == InitScore /\ [][NextSigned]_vars

(***************************************************************************)
(* The driving loop of recommender-test.ts on a network without ratings:   *)
(* while (hasUnrated()) { recommend; addRating(recommended, newRating) }.  *)
(***************************************************************************)
\* A user's RatedNetwork before the loop: every node unrated.
InitLoop ==
    \E n \in 1..MaxN :
      \E network \in SymNets(n), lowerArg \in BoundArgs, upperArg \in BoundArgs :
        LET made == New(network, Fill(n, Null), lowerArg, upperArg)
        IN  /\ made.ok
            /\ rnet = made.obj
            /\ last = Call("new", Null, Null, Null, "none")
            /\ args = [ratings |-> made.obj.ratings]
            /\ called = {}
            /\ users = <<>>
            /\ km = NoLearning
            /\ sim = DefaultSim
            /\ ret = <<>>

\* One iteration: probabilisticAlgorithm.recommend, greedyAlgorithm.recommend
\* (whose result is only logged), newRating = Math.floor(Math.random()*5+1),
\* addRating(probabilisticRecommendedNode, newRating).  An error that
\* recommend throws is not caught: it ends the loop and the program.
ProbabilisticIteration ==
    /\ last.err = "none"
    /\ hasUnrated(rnet)
    /\ \E d \in 0..(UGrid - 1), newRating \in Rating :
        \E res \in ProbOutcomes(rnet, d) :
          IF res.err # "none"
            THEN /\ last' = Call("iteration", Null, Null, res.index, res.err)
                 /\ UNCHANGED rnet
            ELSE LET added == addRating(res.rnet, res.index, newRating)
                 IN  /\ rnet' = added.obj
                     /\ last' = Call("iteration", res.index, newRating, res.index, added.err)
    /\ UNCHANGED <<args, called, users, km, sim, ret>>

NextProbabilisticLoop == ProbabilisticIteration

\* Math.random() is fair: an iteration whose draw makes recommend return an
\* unrated node, when there is such a draw, happens in the end.
SpecProbabilisticLoop ==
    /\ InitLoop
    /\ [][NextProbabilisticLoop]_vars
    /\ WF_vars(ProbabilisticIteration /\ last'.err = "none" /\ rnet.ratings[last'.index] = Null)

(***************************************************************************)
(* The driving loop with the greedy recommend, on a network with or        *)
(* without ratings.  ret holds the nodes proposed so far, args the ratings *)
(* before the loop.                                                        *)
(***************************************************************************)
\* The ratings a network starts the greedy loop with.
StartRatings == {Null, minRating, maxRating}

InitGreedyLoop ==
    \E n \in 1..MaxN :
      \E network \in SymNets(n), ratings \in Vectors(n, StartRatings),
         lowerArg \in BoundArgs, upperArg \in BoundArgs :
        LET made == New(network, ratings, lowerArg, upperArg)
        IN  /\ made.ok
            /\ rnet = made.obj
            /\ last = Call("new", Null, Null, Null, "none")
            /\ args = [ratings |-> ratings]
            /\ called = {}
            /\ users = <<>>
            /\ km = NoLearning
            /\ sim = DefaultSim
            /\ ret = <<>>

\* One iteration: greedyAlgorithm.recommend, then addRating(recommended,
\* newRating) with newRating = Math.floor(Math.random()*5+1).
GreedyIteration ==
    /\ last.err = "none"
    /\ hasUnrated(rnet)
    /\ Len(ret) <= MaxN
    /\ \E newRating \in Rating :
         LET res == GreedyRecommend(rnet)
             added == addRating(res.rnet, res.index, newRating)
         IN  /\ rnet' = added.obj
             /\ last' = Call("iteration", res.index, newRating, res.index, added.err)
             /\ ret' = Append(ret, res.index)
    /\ UNCHANGED <<args, called, users, km, sim>>

NextGreedyLoop == GreedyIteration

SpecGreedyLoop == InitGreedyLoop /\ [][NextGreedyLoop]_vars

(***************************************************************************)
(* A session with the recommend of lines 172-208.                          *)
(***************************************************************************)
\* probabilisticAlgorithm.recommend(ratedNetwork)
ProbabilisticPlaceholder ==
    \E d \in 0..(UGrid - 1) :
      \E res \in ProbOutcomesPlaceholder(rnet, d) :
        /\ rnet' = res.rnet
        /\ last' = Call("probabilistic", Null, Null, res.index, res.err)
        /\ UNCHANGED <<args, called, users, km, sim, ret>>

NextPlaceholder == AddRating \/ ProbabilisticPlaceholder

SpecPlaceholder == Init /\ [][NextPlaceholder]_vars

(***************************************************************************)
(* vectorDist(v1, v2) on its own: every pair of vectors within the bounds. *)
(***************************************************************************)
\* The longest vector, and the entries.
MaxVecLen == 3

VecVals == {1, 3}

InitVectorDist ==
    /\ rnet = NoRnet
    /\ last = Call("none", Null, Null, Null, "none")
    /\ called = {}
    /\ users = <<>>
    /\ km = NoLearning
    /\ sim = DefaultSim
    /\ ret = <<>>
    /\ \E v1 \in Arrays(MaxVecLen, VecVals), v2 \in Arrays(MaxVecLen, VecVals) :
         args = [v1 |-> v1, v2 |-> v2]

\* vectorDist(args.v1, args.v2)
VectorDist ==
    /\ ret = <<>>
    /\ LET res == vectorDistCall(args.v1, args.v2)
       IN  ret' = <<[op |-> "vectorDist", err |-> res.err, value |-> res.value]>>
    /\ UNCHANGED <<rnet, last, args, called, users, km, sim>>

NextVectorDist == VectorDist

SpecVectorDist == InitVectorDist /\ [][NextVectorDist]_vars

(***************************************************************************)
(* Claims                                                                  *)
(***************************************************************************)
Rated(rn) == {i \in Indices(rn.ratings) : rn.ratings[i] # Null}

Unrated(rn) == {i \in Indices(rn.ratings) : rn.ratings[i] = Null}

\* C1: on a network with at least one rated and at least one unrated node,
\* the index a greedy recommend returns is unrated when the call is made.
C1_GreedyReturnsUnrated ==
    [][(last'.op = "greedy" /\ Rated(rnet) # {} /\ Unrated(rnet) # {})
          => last'.result \in Unrated(rnet)]_vars

C1_Witness ==
    /\ last.op = "greedy"
    /\ Cardinality(Rated(rnet)) >= 2
    /\ Unrated(rnet) # {}
    /\ last.result \in Unrated(rnet)

\* The scores of the claim: the recommendation vector with every rated node
\* one below its minimum.
PushedScores(rn) ==
    LET v == getRecommendationVector(rn)
        m == CHOOSE x \in {v[i] : i \in Indices(v)} : \A i \in Indices(v) : x <= v[i]
    IN  [i \in Indices(v) |-> IF i \in Rated(rn) THEN m - 8 ELSE v[i]]

IsMaximum(s, r) == r \in Indices(s) /\ \A i \in Indices(s) : s[i] <= s[r]

\* C2, as stated: greedy recommend returns the index of the maximum pushed
\* score, the lowest index among those that share it.
C2_LowestIndexOfMaximum ==
    [][last'.op = "greedy" =>
          LET s == PushedScores(rnet)
          IN  /\ IsMaximum(s, last'.result)
              /\ \A i \in 0..(last'.result - 1) : s[i] < s[last'.result]]_vars

\* C2, amended: greedy recommend returns the index of the maximum pushed
\* score, the highest index among those that share it.
C2_HighestIndexOfMaximum ==
    [][last'.op = "greedy" =>
          LET s == PushedScores(rnet)
          IN  /\ IsMaximum(s, last'.result)
              /\ \A i \in Indices(s) : i > last'.result => s[i] < s[last'.result]]_vars

\* A greedy recommend among three unrated nodes that share the maximum.
C2_Witness ==
    /\ last.op = "greedy"
    /\ rnet.nNodes = 3
    /\ Rated(rnet) = {}
    /\ \A i \in Indices(rnet.ratings) : PushedScores(rnet)[i] = PushedScores(rnet)[0]
    /\ last.result = 2

\* The network of the end-to-end scenario, [[0,1,0],[1,0,0],[0,0,0]], in halves.
ScenarioNetwork ==
    [i \in 0..2 |-> [j \in 0..2 |-> IF {i, j} = {0, 1} THEN 2 ELSE 0]]

InScenario(rn) == rn.network = ScenarioNetwork /\ rn.lower = 0 /\ rn.upper = 2

\* C3: in the scenario network with derived bounds, greedy recommend returns
\* node 1 on the ratings [5, null, null], and node 2 once node 1 has a
\* rating in 1..5 as well.
C3_ScenarioOrder ==
    [][(last'.op = "greedy" /\ InScenario(rnet) /\ rnet.ratings[0] = 5
            /\ rnet.ratings[2] = Null)
          => /\ rnet.ratings[1] = Null => last'.result = 1
             /\ rnet.ratings[1] \in Rating => last'.result = 2]_vars

C3_Witness ==
    /\ last.op = "greedy"
    /\ InScenario(rnet)
    /\ rnet.ratings[0] = 5 /\ rnet.ratings[1] \in Rating /\ rnet.ratings[2] = Null
    /\ last.result = 2

\* C4: a recommend call, greedy or probabilistic, returning or throwing,
\* leaves the RatedNetwork as it was.
C4_RecommendLeavesNetwork ==
    [][last'.op \in {"greedy", "probabilistic"} => rnet' = rnet]_vars

\* A probabilistic recommend that threw, on a network with rated nodes.
C4_Witness ==
    /\ last.op = "probabilistic"
    /\ last.err = "Error"
    /\ Rated(rnet) # {}

\* C5: once the latest addRating of every index gave a rating in 1..5,
\* hasUnrated() is false and hasRating() is true.
C5_RoundTrip ==
    called = 0..(rnet.nNodes - 1) => ~hasUnrated(rnet) /\ hasRating(rnet)

\* The latest addRating of each of three nodes gave a rating.
C5_Witness ==
    /\ rnet.nNodes = 3
    /\ called = 0..2
    /\ last.op = "addRating"
    /\ ~hasUnrated(rnet)

\* C6: addRating with an index outside 0..N-1 throws and leaves the rating
\* vector as it was; with an index inside, it replaces that entry alone.
C6_AddRating ==
    [][last'.op = "addRating" =>
          IF last'.index < 0 \/ last'.index >= rnet.nNodes
            THEN last'.err = "AssertionError" /\ rnet'.ratings = rnet.ratings
            ELSE /\ last'.err = "none"
                 /\ DOMAIN rnet'.ratings = DOMAIN rnet.ratings
                 /\ \A i \in DOMAIN rnet.ratings :
                        rnet'.ratings[i] = IF i = last'.index THEN last'.rating
                                           ELSE rnet.ratings[i]]_vars

C6_Witness ==
    /\ last.op = "addRating"
    /\ last.index = rnet.nNodes
    /\ last.err = "AssertionError"
    /\ Rated(rnet) # {}

\* C7: ratings.length = nNodes = the number of rows = the length of every
\* row, lower < upper, and no call changes the network or the bounds.
ShapeInvariant(rn) ==
    /\ rn.nNodes >= 1
    /\ DOMAIN rn.ratings = 0..(rn.nNodes - 1)
    /\ DOMAIN rn.network = 0..(rn.nNodes - 1)
    /\ \A r \in DOMAIN rn.network : DOMAIN rn.network[r] = 0..(rn.nNodes - 1)
    /\ rn.lower < rn.upper

C7_Invariant ==
    /\ []ShapeInvariant(rnet)
    /\ [][/\ rnet'.network = rnet.network
          /\ rnet'.nNodes = rnet.nNodes
          /\ rnet'.lower = rnet.lower
          /\ rnet'.upper = rnet.upper]_vars

\* After an addRating that failed and one that succeeded: the last call
\* failed on a network whose ratings are no longer all unrated.
C7_Witness ==
    /\ last.op = "addRating"
    /\ last.err = "AssertionError"
    /\ rnet.nNodes = 3
    /\ Cardinality(Rated(rnet)) = 2

\* The entries of a matrix, and floor / ceil on halves from their definition.
Entries(m) == {m[r][c] : r \in DOMAIN m, c \in DOMAIN m[CHOOSE r \in DOMAIN m : TRUE]}

FloorOf(h) == CHOOSE f \in (h - 1)..h : f % 2 = 0

CeilOf(h) == CHOOSE f \in h..(h + 1) : f % 2 = 0

\* C8: construction throws, and leaves no object, on a ragged or non-square
\* network (an empty one is rejected with the non-square ones), on a rating
\* vector of another length, and whenever the declared or derived lower is
\* not below upper; an omitted lower is floor(min) and an omitted upper
\* ceil(max).
C8_Construction ==
    last.op = "new" =>
      LET net == args.network
          rows == Length(net)
          ragged == \E r \in DOMAIN net : Length(net[r]) # Length(net[0])
          notSquare == rows = 0 \/ \E r \in DOMAIN net : Length(net[r]) # rows
          wrongRatings == args.nRatings # rows
          badShape == ragged \/ notSquare \/ wrongRatings
          failed == rnet = NoRnet /\ last.err = "AssertionError"
          lower == IF args.lower = Omitted
                     THEN FloorOf(CHOOSE x \in Entries(net) : \A y \in Entries(net) : x <= y)
                     ELSE args.lower[1]
          upper == IF args.upper = Omitted
                     THEN CeilOf(CHOOSE x \in Entries(net) : \A y \in Entries(net) : x >= y)
                     ELSE args.upper[1]
      IN  IF badShape THEN failed
          ELSE IF lower >= upper THEN failed
          ELSE /\ last.err = "none"
               /\ rnet.lower = lower
               /\ rnet.upper = upper
               /\ rnet.network = net
               /\ rnet.nNodes = rows

\* Derived bounds where floor and ceil both round: every entry is -0.5.
C8_Witness ==
    /\ last.op = "new"
    /\ args.lower = Omitted /\ args.upper = Omitted
    /\ rnet.nNodes = 2
    /\ \A x \in Entries(rnet.network) : x = -1
    /\ rnet.lower = -2 /\ rnet.upper = 0

\* The call has the arguments the claims on learnProfile require:
\* 1 <= k <= number of users, and users of one dimension.
ValidLearning ==
    /\ km.k >= 1 /\ km.k <= Length(users)
    /\ \A u \in Indices(users) : Length(users[u]) = Length(users[0])

\* C9, as stated: a learnProfile call with 1 <= k <= number of users ends by
\* returning k profiles, the i-th the similarity matrix of the i-th final mean.
C9_ReturnsKProfiles ==
    (km.pc \in {"done", "threw"} /\ ValidLearning) =>
        /\ km.pc = "done"
        /\ DOMAIN km.profiles = 0..(km.k - 1)
        /\ \A c \in DOMAIN km.profiles :
              km.profiles[c] = meanVectorsToSimilarityMatrix(km.currentMeans[c])

\* The distance of user u to mean c in the round that made km.assign: the
\* means of that round are km.previousMeans.
AssignDist(u, c) == vectorDist(km.ratings[u], km.previousMeans[c])

Nearest(u) == \A c \in Indices(km.previousMeans) : AssignDist(u, km.assign[u]) <= AssignDist(u, c)

\* C10, as stated: every Assign step gives each user a cluster at minimal
\* distance, the lowest-indexed of the clusters at that distance.
C10_LowestIndexedNearest ==
    km.rounds >= 1 =>
        \A u \in Indices(km.ratings) :
            /\ Nearest(u)
            /\ \A c \in 0..(km.assign[u] - 1) : AssignDist(u, c) > AssignDist(u, km.assign[u])

\* C10, amended: every Assign step gives each user a cluster at minimal
\* distance, the highest-indexed of the clusters at that distance.
C10_HighestIndexedNearest ==
    km.rounds >= 1 =>
        \A u \in Indices(km.ratings) :
            /\ Nearest(u)
            /\ \A c \in Indices(km.previousMeans) :
                  c > km.assign[u] => AssignDist(u, c) > AssignDist(u, km.assign[u])

\* An Assign step over three distinct means in which a user is at the
\* minimal distance from the means 0 and 1, and nearer to them than to mean 2.
C10_Witness ==
    /\ km.rounds >= 1
    /\ km.k = 3
    /\ \E u \in Indices(km.ratings) :
          /\ AssignDist(u, 0) = AssignDist(u, 1)
          /\ AssignDist(u, 2) > AssignDist(u, 1)
          /\ km.assign[u] = 1

\* C11, as stated: a runKMeans call on valid arguments ends by returning:
\* after every round either the call has returned or it is still in its
\* loop, where the next round or the return can always be taken.
C11_RunEndsByReturning ==
    (ValidLearning /\ km.rounds >= 1) => km.pc \in {"run", "done"}

PairwiseDistinct(a) == \A u, w \in Indices(a) : u # w => a[u] # a[w]

\* C12, as stated: with k = number of users and pairwise distinct rating
\* vectors the call returns after exactly one round, each user alone in the
\* cluster it started, and the final means are the users' rating vectors.
C12_OneRoundToOwnVectors ==
    (km.pc \in {"done", "threw"} /\ ValidLearning /\ km.k = Length(users)
        /\ PairwiseDistinct(users)) =>
        /\ km.pc = "done"
        /\ km.rounds = 1
        /\ \A c \in Indices(km.startIdx) :
              /\ km.assign[km.startIdx[c]] = c
              /\ km.currentMeans[c] = AsMean(users[km.startIdx[c]])

\* C14, as stated: a call with a k below 1, with fewer users than k, or
\* with users of different dimensions ends in the precondition error, with
\* no index drawn and no round run.
C14_PreconditionErrors ==
    (km.pc # "idle" /\ km.given = "k"
        /\ (km.k < 1 \/ Length(users) < km.k
              \/ \E u, w \in Indices(users) : Length(users[u]) # Length(users[w]))) =>
        /\ km.pc = "threw"
        /\ km.err = "AssertionError"
        /\ km.startIdx = <<>>
        /\ km.rounds = 0

\* C15, as stated: a call without a k, the parameters argument omitted or
\* given without a k field, ends in the configuration error, with no index
\* drawn and no round run.
C15_NoKIsConfigurationError ==
    (km.pc # "idle" /\ km.given \in {"noK", "omitted"}) =>
        /\ km.pc = "threw"
        /\ km.err = "Error"
        /\ km.startIdx = <<>>
        /\ km.rounds = 0

\* The second runKMeans has started from the initial means of the first.
SameStart == Len(ret) = 1 /\ km.history # <<>> /\ km.history[0] = ret[1].history[0]

RECURSIVE RatingSum(_, _, _)
RatingSum(us, i, n) ==
    IF n = 0 THEN 0
    ELSE RatingSum(us, i, n - 1) + (IF us[n - 1][i] = Null THEN 0 ELSE us[n - 1][i])

\* The element-wise mean, in units of 1/MeanDen.
MeanRating(us) ==
    [i \in Indices(us[0]) |-> (MeanDen * RatingSum(us, i, Length(us))) \div Length(us)]

\* The similarity matrix of a mean vector under the learner's function.
SimilarityOf(m) ==
    [i \in Indices(m) |-> [j \in Indices(m) |->
        IF i = j THEN Zero
        ELSE IF sim.kind = "exp"
            THEN [kind |-> "exp", arg |-> (m[i] - m[j]) * (m[i] - m[j])]
            ELSE [kind |-> "lin", arg |-> sim.a * MeanDen + sim.b * Abs(m[i] - m[j])]]]

EqualDimension(us) ==
    Length(us) >= 1 /\ \A u \in Indices(us) : Length(us[u]) = Length(us[0])

\* C16: on at least one user, all of one dimension, AverageLearner.learnProfile
\* returns one profile, the similarity matrix of the element-wise mean of
\* the rating vectors with an unrated entry counted as 0; a second call on
\* the same users returns the same.
C16_AverageProfile ==
    EqualDimension(users) =>
        /\ \A n \in 1..Len(ret) :
              /\ ret[n].err = "none"
              /\ DOMAIN ret[n].profiles = {0}
              /\ ret[n].profiles[0] = SimilarityOf(MeanRating(users))
        /\ Len(ret) = 2 => ret[1] = ret[2]

\* Two calls on three users of two nodes, one of them with an unrated entry
\* where another has a rating.
C16_Witness ==
    /\ Len(ret) = 2
    /\ Length(users) = 3
    /\ EqualDimension(users)
    /\ Length(users[0]) = 2
    /\ users[0][0] = Null /\ users[1][0] = 3 /\ users[2][1] = Null
    /\ ret[2].err = "none"

\* f's value on the ratings i and j is outside [0, 1].
OutOfRange(f, i, j) == f.a + f.b * Abs(i - j) < 0 \/ f.a + f.b * Abs(i - j) > SimOne

\* C17: setSimilarityFunction(f, p) with an f that is outside [0, 1] on some
\* pair of ratings in 1..5 throws and leaves the learner's function as it
\* was; with an f inside [0, 1] on all 25 pairs it installs f.
C17_SetSimilarityFunction ==
    [][last'.op = "setSimilarityFunction" =>
          LET f == args'.similarityFunction
          IN  IF \E i \in 1..5, j \in 1..5 : OutOfRange(f, i, j)
                THEN last'.err # "none" /\ sim' = sim
                ELSE last'.err = "none" /\ sim' = f]_vars

\* The call threw on a function that is outside [0, 1] on the pairs (1, 5)
\* and (5, 1) alone, on a learner with an installed function.
C17_Witness ==
    /\ last.op = "setSimilarityFunction"
    /\ last.err = "AssertionError"
    /\ sim.kind = "lin"
    /\ \A i \in 1..5, j \in 1..5 :
          OutOfRange(args.similarityFunction, i, j) <=> Abs(i - j) = 4

\* The scores, with those of the rated nodes set to 0, are all identical.
AllIdentical(rn) == \A i \in Indices(rn.ratings) : ZeroedScores(rn)[i] = ZeroedScores(rn)[0]

\* C18: when the zeroed scores are all identical, the probabilistic
\* recommend returns index i, rated or not, exactly on the draws u with
\* i/N <= u < (i+1)/N, a 1/N share of [0, 1).
C18_Uniform ==
    AllIdentical(rnet) =>
        \A d \in 0..(UGrid - 1) : \A i \in Indices(rnet.ratings) :
            (i * UGrid <= d * rnet.nNodes /\ d * rnet.nNodes < (i + 1) * UGrid) =>
                ProbOutcomes(rnet, d) = {[index |-> i, err |-> "none", rnet |-> rnet]}

\* A probabilistic recommend on identical zeroed scores returned a rated
\* node while another node was unrated.
C18_Witness ==
    /\ last.op = "probabilistic"
    /\ AllIdentical(rnet)
    /\ Unrated(rnet) # {}
    /\ last.result \in Rated(rnet)

\* C19, as stated: a probabilistic recommend returns an index in 0..N-1 or
\* throws; it returns nothing else.
C19_IndexOrError ==
    last.op = "probabilistic" =>
        \/ last.err = "none" /\ last.result \in 0..(rnet.nNodes - 1)
        \/ last.err = "Error" /\ last.result = Null

\* C20, as stated: vectorDist on two vectors of different lengths throws
\* and returns no value.
C20_LengthMismatchThrows ==
    (ret # <<>> /\ ret[1].op = "vectorDist" /\ Length(args.v1) # Length(args.v2)) =>
        ret[1].err # "none"

\* The selection of initKMeans so far: pairwise distinct user indices, at
\* most k of them.
DistinctSelection ==
    /\ Length(km.startIdx) <= km.k
    /\ \A c \in Indices(km.startIdx) : km.startIdx[c] \in 0..(Length(users) - 1)
    /\ \A c, e \in Indices(km.startIdx) : c # e => km.startIdx[c] # km.startIdx[e]

\* The means runKMeans starts from are the rating vectors of the selected
\* users, in selection order.
MeansOfSelection ==
    /\ Length(km.startIdx) = km.k
    /\ Length(km.history[0]) = km.k
    /\ \A c \in Indices(km.startIdx) :
         LET v == km.ratings[km.startIdx[c]]
         IN  /\ Length(km.history[0][c]) = Length(v)
             /\ \A i \in Indices(v) :
                  km.history[0][c][i] = IF v[i] = Null THEN Null ELSE MeanDen * v[i]

\* C21: initKMeans with 1 <= k <= nUsers selects k pairwise distinct user
\* indices in 0..nUsers-1, the initial means are those users' rating
\* vectors in selection order, and under fair draws the selection ends.
C21_InitKMeans ==
    /\ [](ValidLearning => DistinctSelection)
    /\ []((ValidLearning /\ km.pc \in {"run", "done"}) => MeansOfSelection)
    /\ (km.pc = "init") ~> (km.pc = "run")

\* initKMeans has selected two users, the later one first.
C21_Witness ==
    /\ km.pc = "run"
    /\ km.rounds = 0
    /\ km.k >= 2
    /\ km.startIdx[0] > km.startIdx[1]
    /\ km.currentMeans = km.history[0]

\* The last Assign step left cluster c without a user.
EmptyCluster(c) == \A u \in Indices(km.assign) : km.assign[u] # c

\* The errors a learnProfile call ends in before initKMeans: those of its
\* preconditions (users[0] of no user, the three asserts) and the one of
\* parameters without k.
PreconditionErrors == {"TypeError", "AssertionError"}

ConfigurationErrors == {"Error"}

\* C22, as stated: when an Assign step leaves a cluster without a user, the
\* call ends in an error that is neither a precondition nor a configuration
\* error, and returns no profiles.
C22_EmptyClusterIsInternalError ==
    (km.rounds >= 1 /\ \E c \in 0..(km.k - 1) : EmptyCluster(c)) =>
        /\ km.pc = "threw"
        /\ km.profiles = <<>>
        /\ km.err \notin {"none"} \cup PreconditionErrors \cup ConfigurationErrors

\* C23, as stated: cleanRatings returns 0 where the stored rating is
\* unrated and the stored rating otherwise.
C23_CleanRatings ==
    km.ratings # <<>> =>
        /\ Length(km.ratings) = Length(users)
        /\ \A u \in Indices(users) :
             /\ Length(km.ratings[u]) = Length(users[u])
             /\ \A i \in Indices(users[u]) :
                  km.ratings[u][i] = IF users[u][i] = Null THEN 0 ELSE users[u][i]

\* C24: a learnProfile call, K-means or average, returning or failing,
\* leaves every user's stored rating vector as it was, the unrated entries
\* unrated and the rated ones with their values.
C24_StoredRatingsUnchanged ==
    [][/\ Length(users') = Length(users)
       /\ \A u \in Indices(users) :
            /\ Length(users'[u]) = Length(users[u])
            /\ \A i \in Indices(users[u]) : users'[u][i] = users[u][i]]_vars

\* A K-means call has returned after a loop test on the initial means, for
\* users with an unrated entry, and an average call has returned as well.
C24_Witness ==
    /\ km.pc = "done"
    /\ km.rounds >= 2
    /\ \E u \in Indices(users) : \E i \in Indices(users[u]) : users[u][i] = Null
    /\ Len(ret) >= 1
    /\ ret[1].err = "none"

\* C25, as stated: when the zeroed scores of a probabilistic recommend are
\* not all identical, their sum is not 0 (and the division by it gives
\* scores that sum to 1).
C25_NonzeroSum ==
    (last.op = "probabilistic" /\ ~AllIdentical(rnet)) =>
        SumFrom(ZeroedScores(rnet), 0, 0) # 0

\* C26, as stated: in the scoring step, a similarity value within the
\* declared range is rescaled to a positive value exactly when it is above
\* the midpoint (lower + upper) / 2, and to a negative one exactly when it
\* is below.
C26_SignAboutMidpoint ==
    (ret # <<>> /\ ret[1].op = "getRecommendationVector") =>
        \A r \in Indices(rnet.network) : \A c \in Indices(rnet.network[r]) :
            LET v == rnet.network[r][c]
                rescaled == ret[1].rescaledNetwork[r][c]
            IN  (rnet.lower <= v /\ v <= rnet.upper) =>
                    /\ (rescaled > 0) <=> (2 * v > rnet.lower + rnet.upper)
                    /\ (rescaled < 0) <=> (2 * v < rnet.lower + rnet.upper)

\* C27, as stated, the part about errors: in the driving loop on a network
\* that started without ratings, no recommend call raises an error.
C27_NoRecommendError ==
    last.op = "iteration" => last.err = "none"

\* The nodes without a rating in a rating vector.
UnratedIn(ratings) == {i \in Indices(ratings) : ratings[i] = Null}

\* C28: in the loop of greedy recommend and addRating, every iteration
\* rates a node that was unrated, no node is proposed twice, and the loop
\* ends after as many iterations as there were unrated nodes at the start.
C28_GreedyLoop ==
    last.op = "iteration" =>
        /\ \A j \in 1..Len(ret) :
             /\ ret[j] \in UnratedIn(args.ratings)
             /\ rnet.ratings[ret[j]] \in Rating
        /\ \A j, h \in 1..Len(ret) : j # h => ret[j] # ret[h]
        /\ Len(ret) + Cardinality(UnratedIn(rnet.ratings))
                = Cardinality(UnratedIn(args.ratings))
        /\ ~hasUnrated(rnet) => Len(ret) = Cardinality(UnratedIn(args.ratings))
        /\ \A i \in Indices(rnet.ratings) \ UnratedIn(args.ratings) :
             rnet.ratings[i] = args.ratings[i]

\* The loop has ended after two iterations on a network of three nodes.
C28_Witness ==
    /\ last.op = "iteration"
    /\ ~hasUnrated(rnet)
    /\ rnet.nNodes = MaxN
    /\ Len(ret) = 2

\* Two lists of means have the same shape and the same entries.
SameMeans(m1, m2) ==
    /\ Length(m1) = Length(m2)
    /\ \A c \in Indices(m1) :
         /\ Length(m1[c]) = Length(m2[c])
         /\ \A i \in Indices(m1[c]) : m1[c][i] = m2[c][i]

\* C29: when runKMeans returns, there are k returned means, and one more
\* round of kMeansIteration on the same ratings and the returned means
\* yields the returned means.
C29_FixedPoint ==
    km.pc = "done" =>
        /\ Length(km.currentMeans) = km.k
        /\ kMeansIteration(km.ratings, km.currentMeans).err = "none"
        /\ SameMeans(kMeansIteration(km.ratings, km.currentMeans).means, km.currentMeans)

\* runKMeans has returned two means that are not the ones it started from.
C29_Witness ==
    /\ km.pc = "done"
    /\ km.k >= 2
    /\ km.rounds >= 2
    /\ ~SameMeans(km.currentMeans, km.history[0])

\* The score of node i that the distribution is built from: 0 for a rated
\* node, the entry of the recommendation vector for an unrated one.
ScoreOf(rn, i) == IF rn.ratings[i] # Null THEN 0 ELSE getRecommendationVector(rn)[i]

RECURSIVE ScoreSum(_, _)
ScoreSum(rn, n) == IF n = 0 THEN 0 ELSE ScoreSum(rn, n - 1) + ScoreOf(rn, n - 1)

\* The scores are not all identical and their sum is not 0.
ProperDistribution(rn) ==
    /\ \E i \in Indices(rn.ratings) : ScoreOf(rn, i) # ScoreOf(rn, 0)
    /\ ScoreSum(rn, rn.nNodes) # 0

\* C30: when the zeroed scores are not all identical and their sum is not
\* 0, the index a probabilistic recommend returns, for any draw u, is an
\* unrated node whose normalized score (score / sum) is above 0.
C30_ReturnsPositiveUnrated ==
    (last.op = "probabilistic" /\ last.err = "none" /\ ProperDistribution(rnet)) =>
        /\ last.result \in Unrated(rnet)
        /\ ScoreOf(rnet, last.result) * ScoreSum(rnet, rnet.nNodes) > 0

\* A probabilistic recommend returned a node while a rated node and an
\* unrated node with a negative normalized score were there to choose.
C30_Witness ==
    /\ last.op = "probabilistic"
    /\ last.err = "none"
    /\ ProperDistribution(rnet)
    /\ Rated(rnet) # {}
    /\ \E i \in Unrated(rnet) : ScoreOf(rnet, i) * ScoreSum(rnet, rnet.nNodes) < 0
    /\ last.result \in Unrated(rnet)

====
